---- MODULE Spec2Model ----
(***************************************************************************)
(* Model of rtmk_sync.py: the incremental FTP -> monthly CSV sync.          *)
(*                                                                          *)
(* A remote file name is a string; Chars spells it as a sequence of         *)
(* one-character strings, so that the name parser (splitext, split("_"),    *)
(* strptime) is computed as the code computes it.  The local file system    *)
(* is a set of partial maps: the                                            *)
(* ledger file (STATE_PATH), the monthly files (DATA_DIR) and the raw       *)
(* downloads (RAW_DIR).  One run of main() is a walk of pc from "idle" to   *)
(* "done"; the next run starts from the files the previous one left.        *)
(***************************************************************************)
EXTENDS Integers, Sequences, FiniteSets, TLC

\* ------------------------------------------------------------------ bounds
\* Number of runs of main() explored one after the other.
MaxRuns == 2

\* CONFIG["connect_retries"], the default of FTP_CONNECT_RETRIES.
connect_retries == 3

\* ------------------------------------------------------- the remote server
\* Names the server can list.  fA and fC belong to 2025-12, fB to 2025-11; the
\* others are never in scope (too old, no timestamp, not a CSV).
fA == "A_20251219T170000.CSV"
fB == "B_20251105080000.CSV"
fC == "C_20251220T090000.csv"
fOld == "D_20251031235959.CSV"
fBad == "NODATE.CSV"
fTxt == "A_20251219T170000.txt"
\* Names no listing holds, parsed on their own: ten digits only, and 30 February.
fShort == "S_2025111111.CSV"
fFeb30 == "E_20250230120000.CSV"

\* The characters of a name: a TLA+ string is opaque, this table spells it.
Chars(n) ==
    CASE n = fA ->
           <<"A", "_", "2", "0", "2", "5", "1", "2", "1", "9", "T", "1", "7", "0", "0", "0", "0", ".", "C", "S", "V">>
      [] n = fB ->
           <<"B", "_", "2", "0", "2", "5", "1", "1", "0", "5", "0", "8", "0", "0", "0", "0", ".", "C", "S", "V">>
      [] n = fC ->
           <<"C", "_", "2", "0", "2", "5", "1", "2", "2", "0", "T", "0", "9", "0", "0", "0", "0", ".", "c", "s", "v">>
      [] n = fOld ->
           <<"D", "_", "2", "0", "2", "5", "1", "0", "3", "1", "2", "3", "5", "9", "5", "9", ".", "C", "S", "V">>
      [] n = fBad ->
           <<"N", "O", "D", "A", "T", "E", ".", "C", "S", "V">>
      [] n = fTxt ->
           <<"A", "_", "2", "0", "2", "5", "1", "2", "1", "9", "T", "1", "7", "0", "0", "0", "0", ".", "t", "x", "t">>
      [] n = fShort ->
           <<"S", "_", "2", "0", "2", "5", "1", "1", "1", "1", "1", "1", ".", "C", "S", "V">>
      [] n = fFeb30 ->
           <<"E", "_", "2", "0", "2", "5", "0", "2", "3", "0", "1", "2", "0", "0", "0", "0", ".", "C", "S", "V">>

\* Listed by every NLST; a listing adds any of the Candidates to them.
AlwaysListed == {fOld, fBad, fTxt}
Candidates == {fA, fB, fC}

\* csv.reader over the text of a remote file: its rows, a blank line being [].
Content(f) ==
    CASE f = fA -> << <<"time", "temp">>, <<"A1", "1.0">>, <<>> >>
      [] f = fB -> << <<"time", "temp">>, <<"B1", "3.0">> >>
      [] f = fC -> << <<"ts", "hum">>, <<"C1", "40">> >>
      [] OTHER -> <<>>

\* ------------------------------------------------------------- characters
Digits == <<"0", "1", "2", "3", "4", "5", "6", "7", "8", "9">>

\* The characters the modelled names use, in code-point order.
Ascii == <<".", "0", "1", "2", "3", "4", "5", "6", "7", "8", "9",
           "A", "B", "C", "D", "E", "N", "O", "S", "T", "V", "_",
           "c", "s", "t", "v", "x">>

Ord(c) == CHOOSE i \in 1..Len(Ascii) : Ascii[i] = c

IsDigit(c) == \E i \in 1..10 : Digits[i] = c

DigitVal(c) == (CHOOSE i \in 1..10 : Digits[i] = c) - 1

\* str.lower() on one character.
Lower(c) ==
    CASE c = "C" -> "c"
      [] c = "S" -> "s"
      [] c = "T" -> "t"
      [] c = "V" -> "v"
      [] c = "A" -> "a"
      [] c = "B" -> "b"
      [] c = "D" -> "d"
      [] c = "E" -> "e"
      [] c = "N" -> "n"
      [] c = "O" -> "o"
      [] OTHER -> c

\* s[a:b] of Python with 0 <= a, for 1-based sequences: elements a+1..min(b, len).
Slice(s, a, b) ==
    LET hi == IF b < Len(s) THEN b ELSE Len(s)
    IN  IF hi <= a THEN <<>> ELSE SubSeq(s, a + 1, hi)

\* str < str of Python: lexicographic by code point, a proper prefix is smaller.
RECURSIVE StrLess(_, _)
StrLess(a, b) ==
    IF b = <<>> THEN FALSE
    ELSE IF a = <<>> THEN TRUE
    ELSE IF Head(a) = Head(b) THEN StrLess(Tail(a), Tail(b))
    ELSE Ord(Head(a)) < Ord(Head(b))

\* sorted(list): ascending, duplicates kept.
RECURSIVE Insert(_, _)
Insert(x, s) ==
    IF s = <<>> THEN <<x>>
    ELSE IF StrLess(Chars(Head(s)), Chars(x)) THEN <<Head(s)>> \o Insert(x, Tail(s))
    ELSE <<x>> \o s

RECURSIVE sorted(_)
sorted(s) == IF s = <<>> THEN <<>> ELSE Insert(Head(s), sorted(Tail(s)))

RECURSIVE SetToSeq(_)
SetToSeq(S) ==
    IF S = {} THEN <<>>
    ELSE LET x == CHOOSE y \in S : TRUE IN <<x>> \o SetToSeq(S \ {x})

Range(s) == {s[i] : i \in 1..Len(s)}

\* ------------------------------------------------------------------ names
\* Optional values: None is the empty sequence, a value x is <<x>>.
None == <<>>
Some(x) == <<x>>

\* os.path.splitext(fname)[0] for a name without directory separators: cut at
\* the last dot unless only dots precede it.
LastDot(s) ==
    LET D == {i \in 1..Len(s) : s[i] = "."}
    IN  IF D = {} THEN 0 ELSE CHOOSE i \in D : \A j \in D : j <= i

splitext_base(fname) ==
    LET d == LastDot(fname)
    IN  IF d > 0 /\ \E i \in 1..(d - 1) : fname[i] # "." THEN SubSeq(fname, 1, d - 1)
        ELSE fname

\* base.split("_"): the positions of the underscores decide the parts.
Underscores(s) == {i \in 1..Len(s) : s[i] = "_"}

NumParts(s) == Cardinality(Underscores(s)) + 1

\* parts[1]: what lies between the first and the second underscore.
SecondPart(s) ==
    LET U == Underscores(s)
        u1 == CHOOSE i \in U : \A j \in U : i <= j
        R == {i \in U : i > u1}
        u2 == IF R = {} THEN Len(s) + 1 ELSE CHOOSE i \in R : \A j \in R : i <= j
    IN  SubSeq(s, u1 + 1, u2 - 1)

\* The formats of the two strptime calls, one token per directive or literal.
FmtT == <<"Y", "m", "d", "T", "H", "M", "S">>
FmtD == <<"Y", "m", "d", "H", "M", "S">>

\* The two-digit alternatives of the directive's regular expression.
TwoOk(d, v) ==
    CASE d = "m" -> v >= 1 /\ v <= 12
      [] d = "d" -> v >= 1 /\ v <= 31
      [] d = "H" -> v <= 23
      [] d = "M" -> v <= 59
      [] d = "S" -> v <= 61

\* The one-digit alternative: [1-9] for month and day, any digit otherwise.
OneOk(d, v) == IF d \in {"m", "d"} THEN v >= 1 ELSE TRUE

NoMatch == [ok |-> FALSE, end |-> 0, vals |-> <<>>]

\* re.match of the format's regular expression from position pos: the
\* alternatives are tried in order (two digits before one) with backtracking.
RECURSIVE ReMatch(_, _, _)
ReMatch(s, pos, fmt) ==
    IF fmt = <<>> THEN [ok |-> TRUE, end |-> pos - 1, vals |-> <<>>]
    ELSE
      LET d == Head(fmt)
          dig(i) == i <= Len(s) /\ IsDigit(s[i])
      IN  IF d = "T" THEN
            IF pos <= Len(s) /\ s[pos] \in {"T", "t"}
            THEN ReMatch(s, pos + 1, Tail(fmt)) ELSE NoMatch
          ELSE IF d = "Y" THEN
            IF dig(pos) /\ dig(pos + 1) /\ dig(pos + 2) /\ dig(pos + 3) THEN
              LET r == ReMatch(s, pos + 4, Tail(fmt))
                  v == 1000 * DigitVal(s[pos]) + 100 * DigitVal(s[pos + 1])
                       + 10 * DigitVal(s[pos + 2]) + DigitVal(s[pos + 3])
              IN  IF r.ok THEN [r EXCEPT !.vals = <<v>> \o @] ELSE NoMatch
            ELSE NoMatch
          ELSE
            LET v2 == 10 * DigitVal(s[pos]) + DigitVal(s[pos + 1])
                v1 == DigitVal(s[pos])
                two == dig(pos) /\ dig(pos + 1) /\ TwoOk(d, v2)
                one == dig(pos) /\ OneOk(d, v1)
                r2 == ReMatch(s, pos + 2, Tail(fmt))
                r1 == ReMatch(s, pos + 1, Tail(fmt))
            IN  IF two /\ r2.ok THEN [r2 EXCEPT !.vals = <<v2>> \o @]
                ELSE IF one /\ r1.ok THEN [r1 EXCEPT !.vals = <<v1>> \o @]
                ELSE NoMatch

IsLeap(y) == (y % 4 = 0 /\ y % 100 # 0) \/ y % 400 = 0

DaysInMonth(y, m) ==
    IF m = 2 THEN (IF IsLeap(y) THEN 29 ELSE 28)
    ELSE IF m \in {4, 6, 9, 11} THEN 30 ELSE 31

\* dt.datetime.strptime(s, fmt): None stands for the ValueError it raises (no
\* match, unconverted data, or a field datetime() rejects).
strptime(s, fmt) ==
    LET r == ReMatch(s, 1, fmt)
    IN  IF ~r.ok \/ r.end # Len(s) THEN None
        ELSE LET v == r.vals
             IN  IF v[1] >= 1 /\ v[3] <= DaysInMonth(v[1], v[2]) /\ v[6] <= 59
                 THEN Some([year |-> v[1], month |-> v[2], day |-> v[3],
                            hour |-> v[4], minute |-> v[5], second |-> v[6]])
                 ELSE None

isdigit(s) == s # <<>> /\ \A i \in 1..Len(s) : IsDigit(s[i])

extract_datetime_from_fname(fname) ==
    LET base == splitext_base(Chars(fname))
        tail == SecondPart(base)
        t15 == IF Len(tail) >= 15 /\ tail[9] = "T"
               THEN strptime(Slice(tail, 0, 15), FmtT) ELSE None
        t14 == IF isdigit(Slice(tail, 0, 14))
               THEN strptime(Slice(tail, 0, 14), FmtD) ELSE None
    IN  IF NumParts(base) < 2 THEN None
        ELSE IF t15 # None THEN t15
        ELSE t14

\* START_DATE: the default START_FROM_DATE, parsed.
START_DATE == <<2025, 11, 1>>

\* Mutant: the dates are compared by month and day, the year is forgotten.
DateGeq_no_year(a, b) ==
    \/ a[2] > b[2]
    \/ a[2] = b[2] /\ a[3] >= b[3]

DateGeq(a, b) ==
    \/ a[1] > b[1]
    \/ a[1] = b[1] /\ a[2] > b[2]
    \/ a[1] = b[1] /\ a[2] = b[2] /\ a[3] >= b[3]

\* The parse of every name the server can list, computed once.
DatetimeOf == [n \in AlwaysListed \cup Candidates |-> extract_datetime_from_fname(n)]

\* bool(dttm and dttm.date() >= bound)
in_scope_on(dttm, bound) ==
    dttm # None /\ DateGeq(<<dttm[1].year, dttm[1].month, dttm[1].day>>, bound)

\* Mutant: a name with no timestamp is in scope too.
file_in_scope_undecidable_too(fname) ==
    DatetimeOf[fname] = None \/ in_scope_on(DatetimeOf[fname], START_DATE)

file_in_scope(fname) == in_scope_on(DatetimeOf[fname], START_DATE)

\* file_in_scope in a process whose START_FROM_DATE is bound.
file_in_scope_at(fname, bound) == in_scope_on(extract_datetime_from_fname(fname), bound)

\* str(n) for n >= 0, as characters.
RECURSIVE DecChars(_)
DecChars(n) ==
    IF n < 10 THEN <<Digits[n + 1]>>
    ELSE DecChars(n \div 10) \o <<Digits[(n % 10) + 1]>>

\* f"{n:02d}"
Pad2(n) == IF n < 10 THEN <<"0">> \o DecChars(n) ELSE DecChars(n)


\* ------------------------------------------------------------------- state
VARIABLES
    pc,          \* where main() stands: "idle" before a run, "done" after it
    runs,        \* runs of main() started so far
    now,         \* dt.datetime.now() of the run, as <<year, month>>
    cfg,         \* CONFIG: creds (host, user and password set), rebuild
    stateFile,   \* STATE_PATH: [kind, items]
    monthly,     \* DATA_DIR: year-month -> rows of data/<ym>.csv, existing files only
    raw,         \* RAW_DIR: the names of the files in it
    state,       \* main: state
    state_set,   \* main: state_set
    ftp,         \* main: ftp is not None
    scope,       \* main: scope
    new_files,   \* main: new_files
    idx,         \* position of the for loop in new_files
    ok,          \* main: ok
    skipped,     \* main: skipped
    added,       \* main: added, the last value append_raw_to_monthly returned
    attempt,     \* ftp_connect: attempts made
    exc,         \* the exception except Exception has caught and will re-raise
    result,      \* how main() ended: "returned", "interrupted", "killed" or what it raised
    sessLeaked,  \* a socket opened in this run was dropped without quit() or close()
    sessQuit,    \* ftp.quit() of the finally block: "no", "ok", "failed"
    file0,       \* history: stateFile when the run started
    monthly0,    \* history: monthly when the run started
    saveCalls,   \* history: calls of save_state in this run
    saved,       \* history: save_state returned in this run
    outcomes,    \* history: per processed new file "ok", "fetch_failed", "merge_failed"
    merges,      \* history: year-month -> names merged since the file was created
    dirty,       \* history: year-months whose file an aborted merge has written to
    cleared,     \* history: year-months the rebuild step of this run removed
    rebuilt,     \* history: some run so far had rebuild mode enabled
    probe        \* the function under study and its arguments (see PureSpec)

vars == <<pc, runs, now, cfg, stateFile, monthly, raw, state, state_set, ftp, scope,
          new_files, idx, ok, skipped, added, attempt, exc, result, sessLeaked,
          sessQuit, file0, monthly0, saveCalls, saved, outcomes, merges, dirty,
          cleared, rebuilt, probe>>

fileVars == <<stateFile, monthly, raw, merges, dirty>>
\* The locals of main() and the history of the run.
localVars == <<state, state_set, ftp, scope, new_files, idx, ok, skipped, added,
               attempt, saveCalls, saved, outcomes, cleared>>
sessVars == <<sessLeaked, sessQuit>>
startVars == <<runs, now, cfg, file0, monthly0, rebuilt, probe>>

\* ------------------------------------------------------------ ledger file
\* Ledger entries that are no strings: the JSON number 1 and a nested list.
NumEntry == "int:1"
Nested == "list:[]"

Absent == [kind |-> "absent", items |-> <<>>]
\* Not parseable as JSON: garbage, or a file cut short (an empty file included).
Invalid == [kind |-> "invalid", items |-> <<>>]
NotList == [kind |-> "notlist", items |-> <<>>]
ListFile(items) == [kind |-> "list", items |-> items]

load_state(file) == IF file.kind = "list" THEN file.items ELSE <<>>

\* set(state) raises TypeError on an unhashable entry.
Hashable(s) == Nested \notin Range(s)

\* sorted(set(files)) raises TypeError when it has to compare a str with an int.
Sortable(S) == ~(NumEntry \in S /\ S # {NumEntry})

\* Mutant: only the names added in this run are written.
save_state_content_new_only(S) == ListFile(sorted(SetToSeq(S \ Range(state))))

\* What json.dump(sorted(set(files))) leaves in the file.
save_state_content(S) == ListFile(sorted(SetToSeq(S)))

\* Mutant: the list is sorted as given, set() is left out.
save_state_keeps_duplicates(files) == ListFile(sorted(files))

\* save_state(files), run to its end: the content of the file afterwards.
save_state(files) == save_state_content(Range(files))

\* ---------------------------------------------------------- monthly files
\* Mutant: the partition is always that of the wall clock.
year_month_for_wall_clock(fname) == DecChars(now[1]) \o <<"-">> \o Pad2(now[2])

year_month_for(fname) ==
    LET dttm == DatetimeOf[fname]
    IN  IF dttm = None THEN DecChars(now[1]) \o <<"-">> \o Pad2(now[2])
        ELSE DecChars(dttm[1].year) \o <<"-">> \o Pad2(dttm[1].month)

\* A map with key k set to v (added when missing).
Put(m, k, v) == [x \in DOMAIN m \cup {k} |-> IF x = k THEN v ELSE m[x]]

\* A map without the keys K.
Drop(m, K) == [x \in DOMAIN m \ K |-> m[x]]

NonEmptyRow(r) == r # <<>>

data_rows_of(rows) == SelectSeq(Tail(rows), NonEmptyRow)

\* Mutant: the header is written whether or not the file exists.
rows_to_write_header_always(files, rows, ym) == <<Head(rows)>> \o data_rows_of(rows)

\* The rows one call of append_raw_to_monthly writes, in order.
rows_to_write(files, rows, ym) ==
    (IF ym \in DOMAIN files THEN <<>> ELSE <<Head(rows)>>) \o data_rows_of(rows)

\* open("a") and the first k rows written (k = 0: the file exists, nothing more).
write_rows(files, rows, ym, k) ==
    Put(files, ym, (IF ym \in DOMAIN files THEN files[ym] ELSE <<>>)
                   \o SubSeq(rows_to_write(files, rows, ym), 1, k))

append_raw_to_monthly(files, rows, ym) ==
    IF rows = <<>> THEN [files |-> files, ret |-> 0]
    ELSE [files |-> write_rows(files, rows, ym, Len(rows_to_write(files, rows, ym))),
          ret |-> Len(data_rows_of(rows))]

ScopeMonths(scope_files) == {year_month_for(f) : f \in Range(scope_files)}

\* Mutant: a rebuild removes every monthly file, in scope or not.
clear_every_month_file(files, scope_files, rebuild) ==
    IF ~rebuild THEN files ELSE Drop(files, DOMAIN files)

clear_target_month_files_if_rebuild(files, scope_files, rebuild) ==
    IF ~rebuild THEN files ELSE Drop(files, ScopeMonths(scope_files))

\* ---------------------------------------------------------------- listing
EndsWithCsv(n) ==
    LET c == Chars(n)
    IN  /\ Len(c) >= 4
        /\ [i \in 1..4 |-> Lower(c[Len(c) - 4 + i])] = <<".", "c", "s", "v">>

list_remote_csv(names) == SelectSeq(names, EndsWithCsv)

scope_of(names) == SelectSeq(sorted(list_remote_csv(names)), file_in_scope)

\* Mutant: the diff forgets the ledger.
new_files_of_no_ledger(scope_files, S) == scope_files

new_files_of(scope_files, S) == SelectSeq(scope_files, LAMBDA f : f \notin S)


\* -------------------------------------------------------------------- Init
\* No function is under study while main() runs.
NoProbe == [kind |-> "none"]

EmptyMap == [x \in {} |-> <<>>]

Clocks == {<<2025, 12>>}

\* What the checkout holds for the ledger before the first run: nothing, or a
\* file that is not what save_state writes (garbage, a JSON value that is no
\* list, a list with an entry that is no string).
InitialLedgers ==
    {Absent, Invalid, NotList, ListFile(<<NumEntry>>), ListFile(<<Nested>>)}

Init ==
    /\ pc = "idle"
    /\ runs = 0
    /\ now \in Clocks
    /\ cfg = [creds |-> TRUE, rebuild |-> FALSE]
    /\ stateFile \in InitialLedgers
    /\ monthly = EmptyMap
    /\ raw = {}
    /\ state = <<>>
    /\ state_set = {}
    /\ ftp = FALSE
    /\ scope = <<>>
    /\ new_files = <<>>
    /\ idx = 1
    /\ ok = 0
    /\ skipped = 0
    /\ added = 0
    /\ attempt = 0
    /\ exc = "none"
    /\ result = "none"
    /\ sessLeaked = FALSE
    /\ sessQuit = "no"
    /\ file0 = stateFile
    /\ monthly0 = EmptyMap
    /\ saveCalls = 0
    /\ saved = FALSE
    /\ outcomes = <<>>
    /\ merges = EmptyMap
    /\ dirty = {}
    /\ cleared = {}
    /\ rebuilt = FALSE
    /\ probe = NoProbe

Running == pc \notin {"idle", "done"}

\* main() is over: its locals are gone, and so is the history of the run.
EndRun(res) ==
    /\ pc' = "done"
    /\ result' = res
    /\ exc' = "none"
    /\ state' = <<>>
    /\ state_set' = {}
    /\ ftp' = FALSE
    /\ scope' = <<>>
    /\ new_files' = <<>>
    /\ idx' = 1
    /\ ok' = 0
    /\ skipped' = 0
    /\ added' = 0
    /\ attempt' = 0
    /\ saveCalls' = 0
    /\ saved' = FALSE
    /\ outcomes' = <<>>
    /\ cleared' = {}
    /\ file0' = stateFile
    /\ monthly0' = monthly
    /\ UNCHANGED <<runs, now, cfg, rebuilt, probe>>

\* finally: if ftp: ftp.quit(), a failure of which is swallowed.
QuitSession == IF ftp THEN sessQuit' \in {"ok", "failed"} ELSE sessQuit' = sessQuit

\* ------------------------------------------------------------------ main()
\* A new process: CONFIG is read from the environment, ensure_dirs(), log().
StartRun ==
    /\ pc \in {"idle", "done"}
    /\ runs < MaxRuns
    /\ runs' = runs + 1
    /\ now' \in {c \in Clocks : c = now \/ c[1] > now[1]}
    /\ cfg' \in [creds : BOOLEAN, rebuild : BOOLEAN]
    /\ rebuilt' = (rebuilt \/ cfg'.rebuild)
    /\ UNCHANGED probe
    /\ pc' = "load"
    /\ exc' = "none"
    /\ result' = "none"
    /\ sessLeaked' = FALSE
    /\ sessQuit' = "no"
    /\ file0' = stateFile
    /\ monthly0' = monthly
    /\ UNCHANGED localVars
    /\ UNCHANGED fileVars

\* state = load_state()
LoadState ==
    /\ pc = "load"
    /\ state' = load_state(stateFile)
    /\ pc' = "toset"
    /\ UNCHANGED <<state_set, ftp, scope, new_files, idx, ok, skipped, added, attempt,
                   saveCalls, saved, outcomes, cleared>>
    /\ UNCHANGED <<exc, result>>
    /\ UNCHANGED sessVars
    /\ UNCHANGED startVars
    /\ UNCHANGED fileVars

\* state_set = set(state), before the try block: a TypeError leaves main() at once.
MakeSet ==
    /\ pc = "toset"
    /\ Hashable(state)
    /\ state_set' = Range(state)
    /\ pc' = "connect"
    /\ UNCHANGED <<state, ftp, scope, new_files, idx, ok, skipped, added, attempt,
                   saveCalls, saved, outcomes, cleared>>
    /\ UNCHANGED <<exc, result>>
    /\ UNCHANGED sessVars
    /\ UNCHANGED startVars
    /\ UNCHANGED fileVars

MakeSetRaises ==
    /\ pc = "toset"
    /\ ~Hashable(state)
    /\ EndRun("TypeError")
    /\ UNCHANGED sessVars
    /\ UNCHANGED fileVars

\* ftp_connect(): the credentials check raises RuntimeError before any attempt.
ConnectConfigError ==
    /\ pc = "connect"
    /\ ~cfg.creds
    /\ exc' = "RuntimeError"
    /\ pc' = "finally"
    /\ UNCHANGED <<result>>
    /\ UNCHANGED localVars
    /\ UNCHANGED sessVars
    /\ UNCHANGED startVars
    /\ UNCHANGED fileVars

\* One pass of the retry loop.  "refused": ftp.connect raises, no socket is left;
\* "login_failed": the socket is open when login or cwd raises; "ok": returns ftp.
\* A failed attempt sleeps and goes on to the next one; the loop counter is gone
\* once ftp_connect has returned.
ConnectAttempt ==
    /\ pc = "connect"
    /\ cfg.creds
    /\ attempt < connect_retries
    /\ \E how \in {"ok", "refused", "login_failed"} :
          /\ sessLeaked' = (sessLeaked \/ how = "login_failed")
          /\ ftp' = (how = "ok")
          /\ attempt' = IF how = "ok" THEN 0 ELSE attempt + 1
          /\ pc' = IF how = "ok" THEN "list" ELSE "connect"
    /\ UNCHANGED <<state, state_set, scope, new_files, idx, ok, skipped, added,
                   sessQuit, saveCalls, saved, outcomes, cleared>>
    /\ UNCHANGED <<exc, result>>
    /\ UNCHANGED startVars
    /\ UNCHANGED fileVars

\* Mutant: with all attempts failed, main() goes on to the listing.
ConnectExhausted_not_fatal ==
    /\ pc = "connect"
    /\ cfg.creds
    /\ attempt >= connect_retries
    /\ pc' = "list"
    /\ UNCHANGED <<exc, result>>
    /\ UNCHANGED localVars
    /\ UNCHANGED sessVars
    /\ UNCHANGED startVars
    /\ UNCHANGED fileVars

\* All attempts failed: ftp_connect raises RuntimeError, main logs and re-raises.
ConnectExhausted ==
    /\ pc = "connect"
    /\ cfg.creds
    /\ attempt >= connect_retries
    /\ exc' = "RuntimeError"
    /\ pc' = "finally"
    /\ UNCHANGED <<result>>
    /\ UNCHANGED localVars
    /\ UNCHANGED sessVars
    /\ UNCHANGED startVars
    /\ UNCHANGED fileVars

\* The names NLST may return: the fixed ones and any candidates, or fA twice.
Listings ==
    {SetToSeq(AlwaysListed \cup S) : S \in SUBSET Candidates}
        \cup {SetToSeq(AlwaysListed) \o <<fA, fA>>}

\* remote = sorted(list_remote_csv(ftp)); scope; return when scope is empty.
ListRemote ==
    /\ pc = "list"
    /\ \E names \in Listings :
          /\ scope' = scope_of(names)
          /\ pc' = IF scope' = <<>> THEN "finally" ELSE "clear"
    /\ UNCHANGED <<state, state_set, ftp, new_files, idx, ok, skipped, added, attempt,
                   saveCalls, saved, outcomes, cleared>>
    /\ UNCHANGED <<exc, result>>
    /\ UNCHANGED sessVars
    /\ UNCHANGED startVars
    /\ UNCHANGED fileVars

\* ftp.nlst() raises: caught by except Exception, logged and re-raised.
ListFails ==
    /\ pc = "list"
    /\ exc' = "FtpError"
    /\ pc' = "finally"
    /\ UNCHANGED <<result>>
    /\ UNCHANGED localVars
    /\ UNCHANGED sessVars
    /\ UNCHANGED startVars
    /\ UNCHANGED fileVars

\* clear_target_month_files_if_rebuild(scope)
ClearMonths ==
    /\ pc = "clear"
    /\ monthly' = clear_target_month_files_if_rebuild(monthly, scope, cfg.rebuild)
    /\ cleared' = DOMAIN monthly \ DOMAIN monthly'
    /\ merges' = Drop(merges, cleared')
    /\ dirty' = dirty \ cleared'
    /\ pc' = "diff"
    /\ UNCHANGED <<state, state_set, ftp, scope, new_files, idx, ok, skipped, added,
                   attempt, saveCalls, saved, outcomes>>
    /\ UNCHANGED <<exc, result, stateFile, raw>>
    /\ UNCHANGED sessVars
    /\ UNCHANGED startVars

\* Mutant: the ledger is saved even when there is nothing new.
Diff_then_save ==
    /\ pc = "diff"
    /\ new_files' = new_files_of(scope, state_set)
    /\ pc' = IF new_files' = <<>> THEN "save" ELSE "loop"
    /\ UNCHANGED <<state, state_set, ftp, scope, idx, ok, skipped, added, attempt,
                   saveCalls, saved, outcomes, cleared>>
    /\ UNCHANGED <<exc, result>>
    /\ UNCHANGED sessVars
    /\ UNCHANGED startVars
    /\ UNCHANGED fileVars

\* new_files = [f for f in scope if f not in state_set]; return when empty.
Diff ==
    /\ pc = "diff"
    /\ new_files' = new_files_of(scope, state_set)
    /\ pc' = IF new_files' = <<>> THEN "finally" ELSE "loop"
    /\ UNCHANGED <<state, state_set, ftp, scope, idx, ok, skipped, added, attempt,
                   saveCalls, saved, outcomes, cleared>>
    /\ UNCHANGED <<exc, result>>
    /\ UNCHANGED sessVars
    /\ UNCHANGED startVars
    /\ UNCHANGED fileVars

\* ------------------------------------------------------ the for loop body
CurFile == new_files[idx]

AfterFile == IF idx + 1 > Len(new_files) THEN "save" ELSE "loop"

\* The history of completed merges, with f merged into ym.
Merged(f, ym) ==
    IF Content(f) = <<>> THEN merges
    ELSE Put(merges, ym, (IF ym \in DOMAIN merges THEN merges[ym] ELSE <<>>) \o <<f>>)

\* The points at which a merge of f can stop short: after open("a") and k rows.
AbortPoints(f, ym) ==
    IF Content(f) = <<>> THEN {}
    ELSE 0..(Len(rows_to_write(monthly, Content(f), ym)) - 1)

\* download_file and append_raw_to_monthly succeed: the name joins state_set.
ProcessOk ==
    /\ pc = "loop"
    /\ LET f == CurFile
           ym == year_month_for(f)
           r == append_raw_to_monthly(monthly, Content(f), ym)
       IN  /\ raw' = raw \cup {f}
           /\ monthly' = r.files
           /\ added' = r.ret
           /\ merges' = Merged(f, ym)
           /\ state_set' = state_set \cup {f}
    /\ ok' = ok + 1
    /\ outcomes' = Append(outcomes, "ok")
    /\ idx' = idx + 1
    /\ pc' = AfterFile
    /\ UNCHANGED <<state, ftp, scope, new_files, skipped, attempt, saveCalls, saved,
                   cleared>>
    /\ UNCHANGED <<exc, result, stateFile, dirty>>
    /\ UNCHANGED sessVars
    /\ UNCHANGED startVars

\* Mutant: a file whose download failed is recorded in the ledger all the same.
ProcessFetchFails_recorded ==
    /\ pc = "loop"
    /\ raw' = raw \cup {CurFile}
    /\ state_set' = state_set \cup {CurFile}
    /\ skipped' = skipped + 1
    /\ outcomes' = Append(outcomes, "fetch_failed")
    /\ idx' = idx + 1
    /\ pc' = AfterFile
    /\ UNCHANGED <<state, ftp, scope, new_files, ok, added, attempt,
                   saveCalls, saved, cleared>>
    /\ UNCHANGED <<exc, result, stateFile, monthly, merges, dirty>>
    /\ UNCHANGED sessVars
    /\ UNCHANGED startVars

\* download_file raises: the raw file is left cut short, the file is skipped.
ProcessFetchFails ==
    /\ pc = "loop"
    /\ raw' = raw \cup {CurFile}
    /\ skipped' = skipped + 1
    /\ outcomes' = Append(outcomes, "fetch_failed")
    /\ idx' = idx + 1
    /\ pc' = AfterFile
    /\ UNCHANGED <<state, state_set, ftp, scope, new_files, ok, added, attempt,
                   saveCalls, saved, cleared>>
    /\ UNCHANGED <<exc, result, stateFile, monthly, merges, dirty>>
    /\ UNCHANGED sessVars
    /\ UNCHANGED startVars

\* append_raw_to_monthly raises while writing: the rows written so far stay.
ProcessMergeFails ==
    /\ pc = "loop"
    /\ LET f == CurFile
           ym == year_month_for(f)
       IN  /\ \E k \in AbortPoints(f, ym) :
                 monthly' = write_rows(monthly, Content(f), ym, k)
           /\ raw' = raw \cup {f}
           /\ dirty' = dirty \cup {ym}
    /\ skipped' = skipped + 1
    /\ outcomes' = Append(outcomes, "merge_failed")
    /\ idx' = idx + 1
    /\ pc' = AfterFile
    /\ UNCHANGED <<state, state_set, ftp, scope, new_files, ok, added, attempt,
                   saveCalls, saved, cleared>>
    /\ UNCHANGED <<exc, result, stateFile, merges>>
    /\ UNCHANGED sessVars
    /\ UNCHANGED startVars

\* ------------------------------------------------------------- save_state
\* STATE_PATH.open("w"): the file is emptied before anything is written.
SaveOpen ==
    /\ pc = "save"
    /\ saveCalls' = saveCalls + 1
    /\ stateFile' = Invalid
    /\ pc' = "savewrite"
    /\ UNCHANGED <<state, state_set, ftp, scope, new_files, idx, ok, skipped, added,
                   attempt, saved, outcomes, cleared>>
    /\ UNCHANGED <<exc, result, monthly, raw, merges, dirty>>
    /\ UNCHANGED sessVars
    /\ UNCHANGED startVars

\* json.dump(sorted(set(files)), f) and close; sorted() raising leaves the file empty.
SaveWrite ==
    /\ pc = "savewrite"
    /\ IF Sortable(state_set)
       THEN /\ stateFile' = save_state_content(state_set)
            /\ saved' = TRUE
            /\ exc' = exc
       ELSE /\ stateFile' = stateFile
            /\ saved' = saved
            /\ exc' = "TypeError"
    /\ pc' = "finally"
    /\ UNCHANGED <<state, state_set, ftp, scope, new_files, idx, ok, skipped, added,
                   attempt, saveCalls, outcomes, cleared>>
    /\ UNCHANGED <<result, monthly, raw, merges, dirty>>
    /\ UNCHANGED sessVars
    /\ UNCHANGED startVars

\* ---------------------------------------------------------------- finally
\* The finally block, after which main() returns or re-raises what it caught.
Finally ==
    /\ pc = "finally"
    /\ QuitSession
    /\ EndRun(IF exc = "none" THEN "returned" ELSE exc)
    /\ UNCHANGED <<sessLeaked>>
    /\ UNCHANGED fileVars

\* ----------------------------------------------------------- interruption
\* KeyboardInterrupt inside the try block: except KeyboardInterrupt logs it,
\* the finally block runs, main() returns.  Raised inside the loop body it
\* leaves the files as the failed step before it left them.
Interrupt ==
    /\ pc \in {"connect", "list", "clear", "diff", "loop", "save", "savewrite"}
    /\ QuitSession
    /\ EndRun("interrupted")
    /\ UNCHANGED <<sessLeaked>>
    /\ UNCHANGED fileVars

\* KeyboardInterrupt outside the try block or inside the finally block: no
\* handler catches it, it leaves main(); ftp.quit() is not called or not finished.
InterruptUncaught ==
    /\ pc \in {"load", "toset", "finally"}
    /\ EndRun("KeyboardInterrupt")
    /\ sessLeaked' = (sessLeaked \/ ftp)
    /\ UNCHANGED <<sessQuit>>
    /\ UNCHANGED fileVars

\* The process is killed (crash, power loss): no handler runs.
Kill ==
    /\ Running
    /\ EndRun("killed")
    /\ UNCHANGED sessVars
    /\ UNCHANGED fileVars

Next ==
    \/ StartRun
    \/ LoadState
    \/ MakeSet
    \/ MakeSetRaises
    \/ ConnectConfigError
    \/ ConnectAttempt
    \/ ConnectExhausted
    \/ ListRemote
    \/ ListFails
    \/ ClearMonths
    \/ Diff
    \/ ProcessOk
    \/ ProcessFetchFails
    \/ ProcessMergeFails
    \/ SaveOpen
    \/ SaveWrite
    \/ Finally
    \/ Interrupt
    \/ InterruptUncaught
    \/ Kill

Spec == Init /\ [][Next]_vars

\* ===================================================================
\* Functions applied on their own
\* ===================================================================
\* save_state / load_state and file_in_scope are functions of their arguments
\* (and of the ledger file); PureSpec applies them to arguments drawn from
\* the sets below while main() stays idle.

\* Load-then-save cycles applied to one ledger.
MaxCycles == 3

\* Every variable but probe.
mainVars == <<pc, runs, now, cfg, stateFile, monthly, raw, state, state_set, ftp, scope,
              new_files, idx, ok, skipped, added, attempt, exc, result, sessLeaked,
              sessQuit, file0, monthly0, saveCalls, saved, outcomes, merges, dirty,
              cleared, rebuilt>>

\* Lists of names handed to save_state: any order, duplicates included.
LedgerInputs ==
    {<<>>} \cup {<<a>> : a \in Candidates}
           \cup {<<a, b>> : a \in Candidates, b \in Candidates}
           \cup {<<a, b, c>> : a \in Candidates, b \in Candidates, c \in Candidates}

\* What the ledger file holds before the first save.
LedgerBefore == {Absent, Invalid, ListFile(<<fC>>), ListFile(<<fB, fA>>)}

\* Values of START_FROM_DATE.
ScopeBounds == {<<2025, 10, 31>>, <<2025, 11, 1>>, <<2025, 11, 5>>, <<2025, 11, 6>>,
                <<2025, 12, 20>>, <<2026, 1, 1>>}

\* a <= b on dates, by the day number YYYYMMDD.
DateNum(d) == d[1] * 10000 + d[2] * 100 + d[3]

ProbedNames == {fA, fB, fC, fOld, fBad, fTxt, fShort, fFeb30}

LedgerProbes ==
    {[kind |-> "ledger", given |-> g, files |-> g, disk |-> d, before |-> d,
      first |-> Absent, at |-> "save", cycles |-> 0] :
        g \in LedgerInputs, d \in LedgerBefore}

ScopeProbes ==
    {p \in {[kind |-> "scope", name |-> n, b1 |-> x, b2 |-> y, dttm |-> None,
             r1 |-> "unset", r2 |-> "unset"] :
                n \in ProbedNames, x \in ScopeBounds, y \in ScopeBounds} :
        DateNum(p.b1) <= DateNum(p.b2)}

PureInit ==
    /\ probe \in LedgerProbes \cup ScopeProbes
    /\ pc = "idle"
    /\ runs = 0
    /\ now \in Clocks
    /\ cfg = [creds |-> TRUE, rebuild |-> FALSE]
    /\ stateFile = Absent
    /\ monthly = EmptyMap
    /\ raw = {}
    /\ state = <<>>
    /\ state_set = {}
    /\ ftp = FALSE
    /\ scope = <<>>
    /\ new_files = <<>>
    /\ idx = 1
    /\ ok = 0
    /\ skipped = 0
    /\ added = 0
    /\ attempt = 0
    /\ exc = "none"
    /\ result = "none"
    /\ sessLeaked = FALSE
    /\ sessQuit = "no"
    /\ file0 = stateFile
    /\ monthly0 = EmptyMap
    /\ saveCalls = 0
    /\ saved = FALSE
    /\ outcomes = <<>>
    /\ merges = EmptyMap
    /\ dirty = {}
    /\ cleared = {}
    /\ rebuilt = FALSE

\* save_state(files)
ProbeSave ==
    /\ probe.kind = "ledger"
    /\ probe.at = "save"
    /\ probe.cycles <= MaxCycles
    /\ probe' = [probe EXCEPT !.disk = save_state(probe.files),
                              !.first = IF probe.cycles = 0 THEN save_state(probe.files)
                                        ELSE @,
                              !.at = "load"]
    /\ UNCHANGED mainVars

\* files = load_state()
ProbeLoad ==
    /\ probe.kind = "ledger"
    /\ probe.at = "load"
    /\ probe.cycles < MaxCycles
    /\ probe' = [probe EXCEPT !.files = load_state(probe.disk),
                              !.at = "save",
                              !.cycles = @ + 1]
    /\ UNCHANGED mainVars

\* file_in_scope(name) under START_DATE = b1 and under START_DATE = b2
ProbeScope ==
    /\ probe.kind = "scope"
    /\ probe.r1 = "unset"
    /\ probe' = [probe EXCEPT
                    !.dttm = extract_datetime_from_fname(probe.name),
                    !.r1 = IF file_in_scope_at(probe.name, probe.b1) THEN "in" ELSE "out",
                    !.r2 = IF file_in_scope_at(probe.name, probe.b2) THEN "in" ELSE "out"]
    /\ UNCHANGED mainVars

PureNext ==
    \/ ProbeSave
    \/ ProbeLoad
    \/ ProbeScope

PureSpec == PureInit /\ [][PureNext]_vars

\* ===================================================================
\* Claims
\* ===================================================================
\* The year-month spelled in a name "X_YYYYMM...": characters 3..6 and 7..8.
EmbeddedYM(f) ==
    LET c == Chars(f) IN SubSeq(c, 3, 6) \o <<"-">> \o SubSeq(c, 7, 8)

\* The non-empty data rows of the sources named, in order.
RECURSIVE ExpectedData(_)
ExpectedData(names) ==
    IF names = <<>> THEN <<>>
    ELSE SelectSeq(Tail(Content(Head(names))), LAMBDA r : r # <<>>)
             \o ExpectedData(Tail(names))

\* The new files the loop found to have succeeded, and how many ended as x.
OkNames == {new_files[i] : i \in {j \in 1..Len(outcomes) : outcomes[j] = "ok"}}
CountOf(x) == Cardinality({j \in 1..Len(outcomes) : outcomes[j] = x})

\* ---- C1
\* Every in-scope name the server lists is in the ledger the run started with.
NoNewRemote == Range(scope) \subseteq Range(load_state(file0))

\* No monthly file has a row it did not have when the run started.
NoRowsAdded ==
    \A ym \in DOMAIN monthly : ym \in DOMAIN monthly0 /\ monthly[ym] = monthly0[ym]

\* C1: idempotence of main().  In a run for which the remote listing holds no
\* in-scope name that the persisted ledger lacks (a second run right after a
\* first one), no row is appended to any monthly file and the ledger file stays
\* what it was when the run started.
C1_Idempotent == (Running /\ NoNewRemote) => (stateFile = file0 /\ NoRowsAdded)

\* A second run that went through listing and diff with files in scope, all of
\* them already in the ledger, and data of the first run on disk.
C1_Witness ==
    /\ runs = 2
    /\ pc = "finally"
    /\ exc = "none"
    /\ scope # <<>>
    /\ NoNewRemote
    /\ DOMAIN monthly # {}

\* ---- C2
\* C2: per-file failure isolation.  While the loop runs and after it, every
\* new file whose fetch or merge raised is counted in skipped and is not in
\* state_set, every other processed file is counted in ok and is in it; the
\* loop goes on to the next file (it is left only after the last one, and no
\* exception is pending in it); and what save_state persisted is exactly the
\* loaded names plus the names that succeeded.
C2_FailureIsolated ==
    (pc \in {"loop", "save", "savewrite", "finally"} /\ new_files # <<>>) =>
        /\ Len(outcomes) = idx - 1
        /\ ok = CountOf("ok")
        /\ skipped = CountOf("fetch_failed") + CountOf("merge_failed")
        /\ ok + skipped = Len(outcomes)
        /\ state_set = Range(state) \cup OkNames
        /\ (pc = "loop") = (idx <= Len(new_files))
        /\ (pc # "finally" => exc = "none")
        /\ (saved => /\ stateFile.kind = "list"
                     /\ Range(stateFile.items) = Range(state) \cup OkNames)

\* Two new files, the second's fetch raises: the ledger holds the first name
\* only, ok = 1 and skipped = 1, the second file's partition does not exist.
C2_Witness ==
    /\ pc = "finally"
    /\ saved
    /\ new_files = <<fA, fB>>
    /\ outcomes = <<"ok", "fetch_failed">>
    /\ stateFile = ListFile(<<fA>>)
    /\ ok = 1
    /\ skipped = 1
    /\ DOMAIN monthly = {EmbeddedYM(fA)}

\* ---- C3
\* A monthly file no aborted merge has written to is the header of the first
\* source merged into it, then the non-empty data rows of all sources merged.
C3_State ==
    \A ym \in DOMAIN monthly \ dirty :
        /\ ym \in DOMAIN merges
        /\ monthly[ym] = <<Head(Content(merges[ym][1]))>> \o ExpectedData(merges[ym])

\* A merge that returns: it changes one monthly file at most, a file that
\* existed gets the data rows appended and nothing else, and the value returned
\* is the number of data rows appended.
C3_Step ==
    (pc = "loop" /\ Len(outcomes') = Len(outcomes) + 1 /\ outcomes'[Len(outcomes')] = "ok")
    => LET grown == {ym \in DOMAIN monthly' :
                        ym \notin DOMAIN monthly \/ monthly'[ym] # monthly[ym]}
       IN  /\ Cardinality(grown) <= 1
           /\ DOMAIN monthly \subseteq DOMAIN monthly'
           /\ grown = {} => added' = 0
           /\ \A ym \in grown :
                 IF ym \in DOMAIN monthly
                 THEN /\ monthly'[ym] = monthly[ym] \o ExpectedData(<<CurFile>>)
                      /\ added' = Len(monthly'[ym]) - Len(monthly[ym])
                 ELSE /\ monthly'[ym] = <<Head(Content(CurFile))>>
                                           \o ExpectedData(<<CurFile>>)
                      /\ added' = Len(monthly'[ym]) - 1

TargetMonths == {EmbeddedYM(f) : f \in Range(scope)}

\* When the rebuild step runs, nothing has been fetched or merged in this run.
C4_State == pc = "clear" => (idx = 1 /\ outcomes = <<>> /\ monthly = monthly0)

\* The rebuild step removes exactly the existing files of the months in scope
\* when rebuild is on and nothing when it is off; no other step removes a file.
C4_Step ==
    /\ (pc = "clear" /\ pc' = "diff") =>
          IF cfg.rebuild
          THEN /\ DOMAIN monthly' = DOMAIN monthly \ TargetMonths
               /\ \A ym \in DOMAIN monthly' : monthly'[ym] = monthly[ym]
          ELSE monthly' = monthly
    /\ (\E ym \in DOMAIN monthly : ym \notin DOMAIN monthly') =>
          (pc = "clear" /\ cfg.rebuild)

\* C4: rebuild semantics.  With rebuild on, every existing monthly file of a
\* month that an in-scope remote file belongs to is deleted before any fetch or
\* merge of the run, and every other monthly file is left as it was; with
\* rebuild off, clear_target_month_files_if_rebuild deletes nothing.
C4_Rebuild == []C4_State /\ [][C4_Step]_vars

\* A rebuild that removed a file in scope and kept one outside it.
C4_Witness ==
    /\ pc = "diff"
    /\ cfg.rebuild
    /\ cleared # {}
    /\ DOMAIN monthly # {}
    /\ DOMAIN monthly0 = DOMAIN monthly \cup cleared

\* ---- C5
C5_State == saved => (stateFile.kind = "list" /\ Range(state) \subseteq Range(stateFile.items))

C5_Step == (Running /\ pc' # "done") => state_set \subseteq state_set'

\* C5: ledger monotonicity.  Within a run state_set never loses a name, and
\* what a run persists contains every name it loaded when it started.
C5_LedgerGrows == []C5_State /\ [][C5_Step]_vars

\* A run that loaded names, added one and saved.
C5_Witness == saved /\ state # <<>> /\ state_set # Range(state)

\* ---- C6
\* The in-scope names that the ledger loaded at the start does not hold.
NewNames == {f \in Range(scope) : f \notin Range(state)}

\* save_state is called once at most; when main() reaches its finally block
\* it has been called once if there was a new file and not at all otherwise.
C6_State ==
    /\ saveCalls <= 1
    /\ (saveCalls = 1 => NewNames # {})
    /\ (pc = "finally" => saveCalls = (IF NewNames # {} THEN 1 ELSE 0))

\* The call of save_state comes after the last new file has been processed and
\* while the session is open; the session is released, in a run that is not
\* interrupted, only from the finally block.
C6_Step ==
    /\ (saveCalls' = saveCalls + 1) =>
          /\ new_files # <<>>
          /\ Range(new_files) = NewNames
          /\ Len(outcomes) = Len(new_files)
          /\ ftp
          /\ sessQuit = "no"
          /\ sessQuit' = "no"
    /\ (sessQuit' \in {"ok", "failed"} /\ result' # "interrupted") =>
          /\ pc = "finally"
          /\ saveCalls = (IF NewNames # {} THEN 1 ELSE 0)

\* C6: ledger persistence protocol.  In a run that is not interrupted
\* save_state is called exactly once if there was a new file, skipped or not,
\* after every new file has been processed and before the session is released,
\* and it is not called when the scope or scope minus ledger is empty.
C6_SaveOnce == []C6_State /\ [][C6_Step]_vars

\* Every new file was skipped and the ledger has been saved all the same.
C6_Witness ==
    /\ pc = "finally"
    /\ saveCalls = 1
    /\ saved
    /\ ok = 0
    /\ skipped = Len(new_files)
    /\ skipped >= 2

\* ---- C7
\* The last rows of the monthly file ym are the data rows of the in-scope
\* files of that month, in the order of the scope.
EndsWithScopeData(ym) ==
    LET fs == SelectSeq(scope, LAMBDA f : EmbeddedYM(f) = ym)
        d == ExpectedData(fs)
        m == monthly[ym]
    IN  /\ Len(m) >= Len(d)
        /\ SubSeq(m, Len(m) - Len(d) + 1, Len(m)) = d

\* C7: end-to-end ingestion.  When main() reaches its finally block the files
\* counted ok and skipped add up to the new files; and a run that started from
\* an empty ledger with every fetch and merge succeeding has fetched every
\* in-scope file, merged each into the monthly file of the year-month embedded
\* in its name and into no other, saved a ledger that is the set of in-scope
\* names, and counted ok = number of in-scope files, skipped = 0.
C7_EndToEnd ==
    pc = "finally" =>
        /\ (new_files # <<>> => ok + skipped = Len(new_files))
        /\ (/\ exc = "none"
            /\ scope # <<>>
            /\ load_state(file0) = <<>>
            /\ \A i \in 1..Len(outcomes) : outcomes[i] = "ok")
           => /\ saved
              /\ stateFile.kind = "list"
              /\ Range(stateFile.items) = Range(scope)
              /\ ok = Len(scope)
              /\ skipped = 0
              /\ Range(scope) \subseteq raw
              /\ TargetMonths \subseteq DOMAIN monthly
              /\ \A ym \in TargetMonths : EndsWithScopeData(ym)
              /\ \A ym \in DOMAIN monthly \ TargetMonths :
                    ym \in DOMAIN monthly0 /\ monthly[ym] = monthly0[ym]

\* The remote lists fA and fB, the ledger is empty: both are merged, into
\* 2025-12 and 2025-11, the ledger holds both names, ok = 2 and skipped = 0.
C7_Witness ==
    /\ pc = "finally"
    /\ exc = "none"
    /\ saved
    /\ load_state(file0) = <<>>
    /\ scope = <<fA, fB>>
    /\ ok = 2
    /\ skipped = 0
    /\ stateFile = ListFile(<<fA, fB>>)
    /\ DOMAIN monthly = {EmbeddedYM(fA), EmbeddedYM(fB)}
    /\ EmbeddedYM(fA) # EmbeddedYM(fB)

\* ---- C8
\* C8: ledger corruption is never fatal.  Whatever the ledger file holds, the
\* run takes a ledger that is absent, unparseable or no list as empty, and no
\* run ends with an error raised because of what the ledger holds (the
\* TypeError of set(state) or of sorted(set(files))).
C8_LedgerNeverFatal ==
    /\ (Running /\ pc # "load" /\ file0.kind # "list") => state = <<>>
    /\ exc # "TypeError"
    /\ result # "TypeError"

\* ---- C9
\* C9: atomic ledger save.  When the process is killed in a run that started
\* with a ledger file save_state had written names to, the file left behind is that
\* previous save or the complete new one.
C9_AtomicSave ==
    [][(/\ Running
        /\ result' = "killed"
        /\ file0.kind = "list"
        /\ file0.items # <<>>
        /\ Range(file0.items) \subseteq Candidates
        /\ Sortable(state_set))
       => (stateFile' = file0 \/ stateFile' = save_state_content(state_set))]_vars

\* ---- C10
\* C10: session release.  When a run has ended, however it ended short of the
\* process being killed, no session opened during it is left unreleased.
C10_SessionsReleased ==
    (pc = "done" /\ result \notin {"none", "killed"}) => ~sessLeaked

\* ---- C11
\* No more than connect_retries attempts have failed; nothing past the connect
\* step runs without a session; and once ftp_connect has raised its
\* RuntimeError there is no session, no listing, no new file, no deletion, no
\* save, and the files are those the run started with.
C11_State ==
    /\ attempt <= connect_retries
    /\ (pc = "connect" => ~ftp /\ scope = <<>> /\ saveCalls = 0)
    /\ (pc \in {"list", "clear", "diff", "loop", "save", "savewrite"} => ftp)
    /\ (exc = "RuntimeError" /\ cfg.creds) =>
          /\ pc = "finally"
          /\ attempt = connect_retries
          /\ ~ftp
          /\ scope = <<>>
          /\ new_files = <<>>
          /\ cleared = {}
          /\ saveCalls = 0
          /\ stateFile = file0
          /\ monthly = monthly0

\* Attempts are made one at a time while there is no session; the first
\* attempt that succeeds ends the loop; the RuntimeError is raised only when
\* connect_retries attempts have failed, and main() ends with it, the files
\* untouched; nothing is fetched without a session.
C11_Step ==
    /\ (attempt' > attempt) =>
          (pc = "connect" /\ attempt' = attempt + 1 /\ ~ftp' /\ pc' = "connect")
    /\ (ftp' /\ ~ftp) =>
          (pc = "connect" /\ attempt < connect_retries /\ pc' = "list")
    /\ (pc = "connect" /\ cfg.creds /\ exc' = "RuntimeError") =>
          attempt = connect_retries
    /\ (pc = "finally" /\ exc = "RuntimeError") =>
          /\ result' \in {"RuntimeError", "KeyboardInterrupt", "killed"}
          /\ UNCHANGED fileVars
    /\ (raw' # raw \/ monthly' # monthly \/ stateFile' # stateFile) => ftp

\* C11: bounded connection retry.  ftp_connect makes at most connect_retries
\* attempts, returns at the first one that succeeds, and when all have failed
\* raises the connection-failure error, which ends the run: no listing, fetch,
\* merge, deletion of a monthly file or save of the ledger happens.
C11_BoundedRetry == []C11_State /\ [][C11_Step]_vars

\* All attempts have failed, one of them after the socket was open.
C11_Witness ==
    /\ pc = "finally"
    /\ exc = "RuntimeError"
    /\ cfg.creds
    /\ attempt = connect_retries
    /\ sessLeaked
    /\ runs = 2
    /\ DOMAIN monthly # {}

\* ---- C12
\* C12: configuration error.  In a run whose host, user or password is
\* missing no connection attempt is made, the ledger is neither read nor
\* written, no monthly or raw file is written, and the run ends with the
\* configuration error (or is stopped from outside).
C12_ConfigErrorFirst ==
    [][(Running /\ ~cfg.creds) =>
          /\ ~(pc = "load" /\ pc' = "toset")
          /\ attempt' = attempt
          /\ ~ftp'
          /\ UNCHANGED fileVars
          /\ result' \in {"none", "RuntimeError", "interrupted", "KeyboardInterrupt",
                          "killed"}]_vars

\* ---- C13
\* C13: interruption handling.  No run ends with a KeyboardInterrupt leaving
\* main(), and a run that an interruption or an error ended has released
\* every session it opened.
C13_GracefulInterrupt ==
    /\ result # "KeyboardInterrupt"
    /\ (pc = "done" /\ result \in {"interrupted", "RuntimeError", "FtpError", "TypeError"})
          => (~sessLeaked /\ sessQuit \in {"no", "ok", "failed"})

\* ---- C14
\* The names of a sequence, each smaller than the next: sorted, no duplicate.
StrictlyAscending(s) ==
    \A i \in 1..(Len(s) - 1) : StrLess(Chars(s[i]), Chars(s[i + 1]))

\* C14: ledger round-trip.  After save_state(files) the ledger file is a list
\* holding the names of files and nothing else, whatever it held before, each
\* name once, in ascending order; and every later load-then-save cycle leaves
\* the file what the first save made it.
C14_RoundTrip ==
    (probe.kind = "ledger" /\ probe.first # Absent) =>
        /\ probe.disk.kind = "list"
        /\ Range(probe.disk.items) = Range(probe.given)
        /\ StrictlyAscending(probe.disk.items)
        /\ probe.disk = probe.first
        /\ (probe.at = "save" => Range(probe.files) = Range(probe.given))

\* An unsorted list with a duplicate, saved over a ledger holding other names,
\* then loaded and saved again as often as the bound allows.
C14_Witness ==
    /\ probe.kind = "ledger"
    /\ probe.given = <<fB, fA, fB>>
    /\ probe.before = ListFile(<<fC>>)
    /\ probe.cycles = MaxCycles
    /\ probe.at = "load"
    /\ probe.disk = ListFile(<<fA, fB>>)

\* ---- C15
\* C15: scope monotonicity.  file_in_scope is true exactly when a timestamp was
\* derived from the name and its date is on or after the bound; for bounds
\* b1 <= b2 a name out of scope under b1 is out of scope under b2; a name with
\* no timestamp is out of scope under both.
C15_ScopeMonotone ==
    (probe.kind = "scope" /\ probe.r1 # "unset") =>
        LET d == probe.dttm
            num == IF d = None THEN 0 ELSE DateNum(<<d[1].year, d[1].month, d[1].day>>)
        IN  /\ (probe.r1 = "in") = (d # None /\ num >= DateNum(probe.b1))
            /\ (probe.r2 = "in") = (d # None /\ num >= DateNum(probe.b2))
            /\ (probe.r1 = "out" => probe.r2 = "out")
            /\ (d = None => probe.r1 = "out" /\ probe.r2 = "out")

\* fB (5 November) is in scope from 5 November and out of scope from 6 November.
C15_Witness ==
    /\ probe.kind = "scope"
    /\ probe.name = fB
    /\ probe.b1 = <<2025, 11, 5>>
    /\ probe.b2 = <<2025, 11, 6>>
    /\ probe.r1 = "in"
    /\ probe.r2 = "out"

\* ---- C16
\* C16: no duplicate ingestion across runs.  With rebuild mode never enabled,
\* a step of the loop that writes to a monthly file does so for a remote file
\* whose data rows were not in that monthly file when the run started.
C16_NoDuplicateIngestion ==
    [][(~rebuilt /\ pc = "loop" /\ monthly' # monthly) =>
          LET ym == EmbeddedYM(CurFile)
          IN  ym \in DOMAIN monthly0 =>
                 \A r \in Range(ExpectedData(<<CurFile>>)) : r \notin Range(monthly0[ym])]_vars

\* ---- C17
\* C17: ledger/data consistency.  When a run has gone through without error
\* (main() is at its finally block, nothing raised), every in-scope remote
\* name that the ledger file holds has its data rows in the monthly file of
\* the year-month of its timestamp.
C17_LedgerDataConsistent ==
    (pc = "finally" /\ exc = "none" /\ stateFile.kind = "list") =>
        \A f \in Range(scope) \cap Range(stateFile.items) :
            /\ EmbeddedYM(f) \in DOMAIN monthly
            /\ Range(ExpectedData(<<f>>)) \subseteq Range(monthly[EmbeddedYM(f)])

\* ---- C18
\* C18: processing order.  The new files of a run are the in-scope listed
\* names that the loaded ledger lacks, and they are fetched in strictly
\* ascending order of name, so no name is fetched twice in a run.
C18_AscendingOnce ==
    (Running /\ new_files # <<>>) =>
        /\ Range(new_files) = Range(scope) \ Range(state)
        /\ StrictlyAscending(new_files)

\* ---- C19
\* Every name in scope, among the new files or fetched has a timestamp, and
\* year_month_for gives it the year-month spelled in the name.
C19_State ==
    \A f \in Range(scope) \cup Range(new_files) \cup raw :
        /\ DatetimeOf[f] # None
        /\ year_month_for(f) = EmbeddedYM(f)

\* A merge writes to the monthly file of the year-month spelled in the name of
\* the file merged and to no other; the rebuild step deletes only monthly files
\* of year-months spelled in in-scope names.
C19_Step ==
    /\ (pc = "loop" /\ monthly' # monthly) =>
          /\ DatetimeOf[CurFile] # None
          /\ \A ym \in DOMAIN monthly' :
                (ym \notin DOMAIN monthly \/ monthly'[ym] # monthly[ym])
                    => ym = EmbeddedYM(CurFile)
    /\ (pc = "clear") => (DOMAIN monthly \ DOMAIN monthly') \subseteq TargetMonths

\* C19: partition keys never come from the wall clock.  Only names with a
\* derived timestamp are in scope, so every key main() uses for a merge or a
\* rebuild deletion is the year-month of the file's embedded timestamp; names
\* without a timestamp, for which year_month_for falls back to the current
\* time, are never merged.
C19_NoWallClockKey == []C19_State /\ [][C19_Step]_vars

\* A rebuild run in December that deleted the November file and merged fB
\* into a new one, while the listing held a name without timestamp.
C19_Witness ==
    /\ now = <<2025, 12>>
    /\ cfg.rebuild
    /\ cleared = {EmbeddedYM(fB)}
    /\ new_files = <<fB>>
    /\ outcomes = <<"ok">>
    /\ EmbeddedYM(fB) \in DOMAIN monthly
    /\ DatetimeOf[fBad] = None
    /\ fBad \notin raw

\* ---- C20
\* C20: raw fetched content is transient.  Once the loop over the new files is
\* over, and when the run has ended, no fetched file is left in RAW_DIR.
C20_RawDiscarded ==
    (pc \in {"save", "savewrite", "finally", "done"}) => raw = {}

====
